---- MODULE Spec2Model ----
(***************************************************************************)
(* Reliable event delivery of farm-connect-backend: the webhook registry   *)
(* and dispatcher (src/services/webhookService.js, src/models/Webhook.js)  *)
(* and the chat message delivery pipeline (src/services/messageQueue.js,   *)
(* src/socket/socket.js, src/config/redis.js).                             *)
(*                                                                         *)
(* Every await of the JavaScript source is a point where another request   *)
(* may run; an action of this module is the code between two awaits whose  *)
(* effects other requests can observe.                                     *)
(***************************************************************************)
EXTENDS Integers, Sequences, FiniteSets, TLC

VARIABLES
  registry,     \* the Webhook collection: webhook _id -> document
  cache,        \* redis keys user:<id>:webhooks
  listPending,  \* getUserWebhooks calls between Webhook.find and redisClient.set
  deadLetter,   \* redis sorted set webhook:dead-letter, in score order
  task,         \* triggerWebhook / retryDeadLetterQueue calls in progress
  resp,         \* the response of the last completed request
  opCount,      \* number of registry requests served
  idCtr,        \* number of ObjectIds issued to webhooks
  secretCtr,    \* number of secrets drawn from crypto.randomBytes
  clock,        \* Date.now(), advanced by every sendWebhook
  nodeEnv,      \* process.env.NODE_ENV
  io,           \* socket.js: the module variable io, set by initializeSocket
  sock,         \* the recipient's sockets: connection handler position, rooms
  session,      \* redis hash user:<recipient>:session, its socketId field
  online,       \* the recipient's presence flag in redis
  offline,      \* redis sorted set offline:<recipient>, in score order
  offlineExpireAt, \* the time at which redis drops offline:<recipient>; 0 without one
  receipts,     \* redis keys delivery:<chat>:<message>
  mq,           \* Bull queue chat-messages: the send-message jobs
  pushed,       \* the chat:message events the recipient's sockets received
  verification, \* a call of verifySignature: its arguments and its outcome
  dateNow,      \* Date.now(), in seconds since the server started
  redisUrlSet,  \* whether process.env.REDIS_URL is set
  lastCall      \* the last call that marked the recipient online or offline

webhookVars == <<registry, cache, listPending, deadLetter, task, resp, opCount, idCtr,
                 secretCtr, clock, nodeEnv>>

chatVars == <<io, sock, session, online, offline, offlineExpireAt, receipts, mq, pushed>>

auxVars == <<verification, dateNow, redisUrlSet, lastCall>>

vars == <<webhookVars, chatVars, auxVars>>

----------------------------------------------------------------------------
(* Bounds of the model *)

MaxWebhooks == 2
MaxTasks == 2
MaxOps == 3
MaxMessages == 2
MaxSockets == 2
MaxTicks == 3

Users == {"u1", "u2"}
WebhookIds == 1..MaxWebhooks
TaskIds == 1..MaxTasks
MsgIds == 1..MaxMessages
Sockets == 1..MaxSockets

----------------------------------------------------------------------------
(* Small helpers *)

Range(s) == {s[i] : i \in 1..Len(s)}

RECURSIVE SeqOfSet(_)
\* the elements of a set of documents as a sequence, ascending _id (insertion order)
SeqOfSet(S) ==
  IF S = {} THEN <<>>
  ELSE LET d == CHOOSE x \in S : \A y \in S : x.id <= y.id
       IN <<d>> \o SeqOfSet(S \ {d})

RECURSIVE Reverse(_)
Reverse(s) == IF s = <<>> THEN <<>> ELSE Reverse(Tail(s)) \o <<Head(s)>>

----------------------------------------------------------------------------
(* src/config/redis.js: the RedisClient wrapper *)

\* the methods class RedisClient defines
RedisClientMethods ==
  {"createMockClient", "connect", "disconnect", "get", "set", "del", "hset", "hget",
   "hgetall", "expire", "setUserSession", "getUserSession"}

\* redisClient.<method>(...) of a method the class does not define throws
\* TypeError: redisClient.<method> is not a function
IsFunction(method) == method \in RedisClientMethods

----------------------------------------------------------------------------
(* src/models/Webhook.js: the schema *)

\* events.enum
EventEnum ==
  {"message:created", "message:read", "chat:created", "chat:archived",
   "offer:made", "offer:accepted", "offer:rejected", "user:online",
   "user:offline", "typing:started", "typing:stopped", "chat:blocked",
   "chat:unblocked", "listing:matched", "test", "*"}

\* new URL(v) of the strings the model registers
GoodUrl == "https://hooks.example.com/cb"
BadUrl == "not a url"
Urls == {GoodUrl, BadUrl}

HttpUrl == "http://hooks.example.com/cb"
PortUrl == "https://hooks.example.com:22/cb"
PrivateUrl == "https://10.0.0.5/cb"
Private172Url == "https://172.20.0.1/cb"
LocalhostUrl == "http://localhost:3000/cb"
LoopbackV6Url == "https://[::1]/cb"

\* the URL object: protocol, hostname as its characters, port (0 for the empty
\* string); an IPv6 host keeps its brackets in hostname
Parsed(protocol, hostname, port) ==
  [ok |-> TRUE, protocol |-> protocol, hostname |-> hostname, port |-> port]

ParseURL(url) ==
  CASE url = GoodUrl -> Parsed("https:", 
        <<"h", "o", "o", "k", "s", ".", "e", "x", "a", "m", "p", "l", "e", ".", "c", "o", "m">>, 0)
    [] url = HttpUrl -> Parsed("http:", 
        <<"h", "o", "o", "k", "s", ".", "e", "x", "a", "m", "p", "l", "e", ".", "c", "o", "m">>, 0)
    [] url = PortUrl -> Parsed("https:", 
        <<"h", "o", "o", "k", "s", ".", "e", "x", "a", "m", "p", "l", "e", ".", "c", "o", "m">>, 22)
    [] url = PrivateUrl -> Parsed("https:", 
        <<"1", "0", ".", "0", ".", "0", ".", "5">>, 0)
    [] url = Private172Url -> Parsed("https:", 
        <<"1", "7", "2", ".", "2", "0", ".", "0", ".", "1">>, 0)
    [] url = LocalhostUrl -> Parsed("http:", 
        <<"l", "o", "c", "a", "l", "h", "o", "s", "t">>, 3000)
    [] url = LoopbackV6Url -> Parsed("https:", 
        <<"[", ":", ":", "1", "]">>, 0)
    [] OTHER -> [ok |-> FALSE, protocol |-> "", hostname |-> <<>>, port |-> 0]

\* mutant: a pre-save hook that lets the empty events array through
PreSaveAccepts(doc) == FALSE

\* WebhookSchema.pre('save'): next(error) when the events array is empty
PreSaveRejects(doc) == Cardinality(doc.events) = 0

\* the schema validators run by save(): url validator, events enum
SchemaRejects(doc) ==
  \/ ~ParseURL(doc.url).ok
  \/ \E e \in doc.events : e \notin EventEnum

\* document.save() either persists or rejects
SaveError(doc) ==
  IF SchemaRejects(doc) THEN "ValidationError"
  ELSE IF PreSaveRejects(doc) THEN "At least one event must be specified"
  ELSE "none"

\* mutant: a transform that keeps the secret
toJSONKeepsSecret(doc) == doc

\* toJSON.transform: delete ret.secret
toJSON(doc) == [f \in DOMAIN doc \ {"secret"} |-> doc[f]]

\* the retry configuration of a document that was created without one: the schema's
\* defaults (maxRetries within 0..10, timeout within 1000..30000 milliseconds)
SchemaDefaults == [maxRetries |-> 3, timeout |-> 10000]

\* WebhookSchema.methods.shouldReceiveEvent
shouldReceiveEvent(doc, eventType) ==
  doc.enabled /\ (eventType \in doc.events \/ "*" \in doc.events)

----------------------------------------------------------------------------
(* src/services/webhookService.js *)

maxRetries == 3

\* this.timeout, in milliseconds
timeout == 10000

\* this.retryDelays, in milliseconds
retryDelays == <<1000, 5000, 15000>>

NoUser == "none"

\* crypto.randomBytes(n): n fresh bytes; the k-th draw differs from the others
randomBytes(n, k) == [len |-> n, draw |-> k]

\* Buffer.toString('hex'): two hexadecimal digits per byte
toHex(bytes) == [chars |-> 2 * bytes.len, hex |-> TRUE, tag |-> bytes.draw]

\* generateSecret
generateSecret(k) == toHex(randomBytes(32, k))

\* a secret chosen by the caller, and the absent secret
SuppliedSecret == [chars |-> 8, hex |-> FALSE, tag |-> 0]
NoSecret == [chars |-> 0, hex |-> FALSE, tag |-> 0]

\* validateWebhookUrl: TRUE when it throws
DangerousPorts == {21, 22, 23, 25, 53, 80, 110, 135, 139, 143, 445, 587, 3306, 3389, 5432}

\* String.prototype.includes
Includes(str, part) ==
  \E i \in 1..(Len(str) - Len(part) + 1) : SubSeq(str, i, i + Len(part) - 1) = part

\* a match of a literal at the start of the string
StartsWith(str, part) == Len(str) >= Len(part) /\ SubSeq(str, 1, Len(part)) = part

\* /^(10\.|172\.(1[6-9]|2[0-9]|3[0-1])\.|192\.168\.|127\.|::1|fc00:|fe80:)/.test(hostname)
IsPrivate(hostname) ==
  \/ StartsWith(hostname, <<"1", "0", ".">>)
  \/ /\ StartsWith(hostname, <<"1", "7", "2", ".">>)
     /\ Len(hostname) >= 7
     /\ \/ hostname[5] = "1" /\ hostname[6] \in {"6", "7", "8", "9"}
        \/ hostname[5] = "2" /\ hostname[6] \in {"0", "1", "2", "3", "4", "5", "6", "7", "8", "9"}
        \/ hostname[5] = "3" /\ hostname[6] \in {"0", "1"}
     /\ hostname[7] = "."
  \/ StartsWith(hostname, <<"1", "9", "2", ".", "1", "6", "8", ".">>)
  \/ StartsWith(hostname, <<"1", "2", "7", ".">>)
  \/ StartsWith(hostname, <<":", ":", "1">>)
  \/ StartsWith(hostname, <<"f", "c", "0", "0", ":">>)
  \/ StartsWith(hostname, <<"f", "e", "8", "0", ":">>)

validateWebhookUrlThrows(url, env) ==
  LET u == ParseURL(url) IN
  \/ ~u.ok
  \/ /\ env = "production"
     /\ u.protocol # "https:"
     /\ ~Includes(u.hostname, <<"l", "o", "c", "a", "l", "h", "o", "s", "t">>)
  \/ u.port # 0 /\ u.port \in DangerousPorts
  \/ env = "production" /\ IsPrivate(u.hostname)

\* Array.isArray(events) ? events : [events]
NormalizeEvents(ev) == IF ev.isArray THEN ev.items ELSE {ev.scalar}

\* mutant: a lookup by _id alone
findOneAnyOwner(reg, id, userId) == IF id \in DOMAIN reg THEN {reg[id]} ELSE {}

\* Webhook.findOne({_id, userId})
findOne(reg, id, userId) ==
  IF id \in DOMAIN reg /\ reg[id].userId = userId THEN {reg[id]} ELSE {}

\* mutant: a query without the '*' alternative
QueryExactOnly(doc, eventType, userId) ==
  /\ eventType \in doc.events
  /\ doc.enabled = TRUE
  /\ (userId # NoUser => doc.userId = userId)

\* the query of getWebhooksForEvent: events $in [eventType, '*'], enabled,
\* and userId when the filter is truthy
QueryMatches(doc, eventType, userId) ==
  /\ \E e \in doc.events : e \in {eventType, "*"}
  /\ doc.enabled = TRUE
  /\ (userId # NoUser => doc.userId = userId)

getWebhooksForEvent(reg, eventType, userId) ==
  SeqOfSet({reg[i] : i \in {j \in DOMAIN reg : QueryMatches(reg[j], eventType, userId)}})

\* mutant: an update that counts every call as a failure
StatsIncFailureOnly(doc, success) ==
  [doc EXCEPT !.totalCalls = @ + 1, !.failedCalls = @ + 1]

\* updateWebhookStats: findByIdAndUpdate with $inc
StatsInc(doc, success) ==
  [doc EXCEPT !.totalCalls = @ + 1,
              !.successfulCalls = @ + (IF success THEN 1 ELSE 0),
              !.failedCalls = @ + (IF success THEN 0 ELSE 1)]

updateWebhookStats(reg, id, success) ==
  IF id \in DOMAIN reg THEN [reg EXCEPT ![id] = StatsInc(@, success)] ELSE reg

\* Webhook.find({userId}).sort({createdAt: -1})
findByUser(reg, userId) ==
  Reverse(SeqOfSet({reg[i] : i \in {j \in DOMAIN reg : reg[j].userId = userId}}))

\* JSON.stringify of an array of documents applies toJSON to each
SerializeDocs(docs) == [i \in 1..Len(docs) |-> toJSON(docs[i])]

NoCache == [hit |-> FALSE, val |-> <<>>]
NoPending == [active |-> FALSE, docs |-> <<>>]

\* what a response tells of its request: the events it named (the success body and
\* the validation message both carry them) and whether it asked for a new secret
\* the retry options of a request body: maxRetries and timeout, each optional
Opts(hasMaxRetries, retries, hasTimeout, ms) ==
  [hasMaxRetries |-> hasMaxRetries, maxRetries |-> retries,
   hasTimeout |-> hasTimeout, timeout |-> ms]

NoOpts == Opts(FALSE, 0, FALSE, 0)

NoReq ==
  [hasEvents |-> FALSE, events |-> {}, rotate |-> FALSE, hasUrl |-> FALSE, url |-> "",
   opts |-> NoOpts]
ReqEvents(events, url, opts) ==
  [hasEvents |-> TRUE, events |-> events, rotate |-> FALSE, hasUrl |-> TRUE, url |-> url,
   opts |-> opts]
ReqPatch(p, events) ==
  [hasEvents |-> p.hasEvents, events |-> events, rotate |-> p.rotateSecret,
   hasUrl |-> p.hasUrl, url |-> IF p.hasUrl THEN p.url ELSE "", opts |-> NoOpts]

NoResp == [n |-> 0, op |-> "none", caller |-> NoUser, target |-> 0,
           status |-> "none", body |-> <<>>, secret |-> NoSecret, req |-> NoReq]

Response(n, op, caller, target, status, body, secret, req) ==
  [n |-> n, op |-> op, caller |-> caller, target |-> target, status |-> status,
   body |-> body, secret |-> secret, req |-> req]

----------------------------------------------------------------------------
(* Inputs of the registry requests *)

EventsInputs ==
  { [isArray |-> TRUE, items |-> {"message.created"}, scalar |-> ""],
    [isArray |-> TRUE, items |-> {"message:created"}, scalar |-> ""],
    [isArray |-> TRUE, items |-> {}, scalar |-> ""],
    [isArray |-> FALSE, items |-> {}, scalar |-> "*"] }

NoPatchEvents == [isArray |-> TRUE, items |-> {}, scalar |-> ""]

Patch(hasUrl, url, hasEvents, events, hasEnabled, enabled, rotate) ==
  [hasUrl |-> hasUrl, url |-> url, hasEvents |-> hasEvents, events |-> events,
   hasEnabled |-> hasEnabled, enabled |-> enabled, rotateSecret |-> rotate]

Patches ==
  { Patch(FALSE, GoodUrl, FALSE, NoPatchEvents, TRUE, FALSE, FALSE),
    Patch(FALSE, GoodUrl, FALSE, NoPatchEvents, TRUE, TRUE, FALSE),
    Patch(FALSE, GoodUrl, TRUE, NoPatchEvents, FALSE, FALSE, FALSE),
    Patch(FALSE, GoodUrl, TRUE, [isArray |-> FALSE, items |-> {}, scalar |-> "test"],
          FALSE, FALSE, FALSE),
    Patch(FALSE, GoodUrl, FALSE, NoPatchEvents, FALSE, FALSE, TRUE),
    Patch(TRUE, BadUrl, FALSE, NoPatchEvents, FALSE, FALSE, FALSE) }

EventTypes == {"message:created", "never:seen"}

----------------------------------------------------------------------------
(* Registry requests *)

\* registerWebhook: new Webhook({userId, webhookId, url, events, secret, name, enabled,
\* ...}); maxRetries and timeout of the request body are not passed on, so the
\* document gets the schema's defaults
NewWebhook(id, userId, url, events, secret) ==
  [id |-> id, userId |-> userId, url |-> url, events |-> events,
   secret |-> secret, enabled |-> TRUE,
   maxRetries |-> SchemaDefaults.maxRetries, timeout |-> SchemaDefaults.timeout,
   totalCalls |-> 0, successfulCalls |-> 0, failedCalls |-> 0]

registerWebhook(userId, url, ev, secret, opts) ==
  LET id == idCtr + 1
      generated == (secret = NoSecret)
      webhookSecret == IF generated THEN generateSecret(secretCtr + 1) ELSE secret
      doc == NewWebhook(id, userId, url, NormalizeEvents(ev), webhookSecret)
      n == opCount + 1
  IN /\ opCount < MaxOps
     /\ opCount' = n
     /\ IF validateWebhookUrlThrows(url, nodeEnv)
          THEN /\ resp' = Response(n, "register", userId, 0, "Invalid webhook URL",
                                   <<>>, NoSecret, ReqEvents(doc.events, url, opts))
               /\ UNCHANGED <<registry, cache, secretCtr, idCtr>>
          ELSE /\ secretCtr' = IF generated THEN secretCtr + 1 ELSE secretCtr
               /\ IF SaveError(doc) # "none"
                    THEN /\ resp' = Response(n, "register", userId, 0, SaveError(doc),
                                             <<>>, NoSecret, ReqEvents(doc.events, url, opts))
                         /\ UNCHANGED <<registry, cache, idCtr>>
                    ELSE /\ registry' = registry @@ (id :> doc)
                         /\ idCtr' = id
                         /\ cache' = [cache EXCEPT ![userId] = NoCache]
                         /\ resp' = Response(n, "register", userId, id, "ok",
                                             <<[id |-> id, url |-> url,
                                                events |-> doc.events,
                                                enabled |-> doc.enabled]>>,
                                             webhookSecret, ReqEvents(doc.events, url, opts))
     /\ UNCHANGED <<listPending, deadLetter, task, clock, nodeEnv, chatVars, auxVars>>

RegisterOf(owners, urls, evs, secrets, options) ==
  \E userId \in owners, url \in urls, ev \in evs, secret \in secrets, opts \in options :
    /\ idCtr < MaxWebhooks
    /\ registerWebhook(userId, url, ev, secret, opts)

Register == RegisterOf(Users, Urls, EventsInputs, {NoSecret, SuppliedSecret}, {NoOpts})

\* updateWebhook: the document after the patch is applied
ApplyPatch(doc, p, k) ==
  LET d1 == IF p.hasUrl THEN [doc EXCEPT !.url = p.url] ELSE doc
      d2 == IF p.hasEvents THEN [d1 EXCEPT !.events = NormalizeEvents(p.events)] ELSE d1
      d3 == IF p.hasEnabled THEN [d2 EXCEPT !.enabled = p.enabled] ELSE d2
  IN IF p.rotateSecret THEN [d3 EXCEPT !.secret = generateSecret(k)] ELSE d3

updateWebhook(id, userId, p) ==
  LET found == findOne(registry, id, userId)
      n == opCount + 1
      req == ReqPatch(p, IF p.hasEvents THEN NormalizeEvents(p.events) ELSE {})
  IN /\ opCount < MaxOps
     /\ opCount' = n
     /\ IF found = {}
          THEN /\ resp' = Response(n, "update", userId, id, "Webhook not found",
                                   <<>>, NoSecret, req)
               /\ UNCHANGED <<registry, cache, secretCtr>>
          ELSE
            LET doc == CHOOSE d \in found : TRUE
                new == ApplyPatch(doc, p, secretCtr + 1)
            IN IF p.hasUrl /\ validateWebhookUrlThrows(p.url, nodeEnv)
                 THEN /\ resp' = Response(n, "update", userId, id, "Invalid webhook URL",
                                          <<>>, NoSecret, req)
                      /\ UNCHANGED <<registry, cache, secretCtr>>
                 ELSE /\ secretCtr' = IF p.rotateSecret THEN secretCtr + 1 ELSE secretCtr
                      /\ IF SaveError(new) # "none"
                           THEN /\ resp' = Response(n, "update", userId, id, SaveError(new),
                                                    <<>>, NoSecret, req)
                                /\ UNCHANGED <<registry, cache>>
                           ELSE /\ registry' = [registry EXCEPT ![id] = new]
                                /\ cache' = [cache EXCEPT ![userId] = NoCache]
                                /\ resp' = Response(n, "update", userId, id, "ok",
                                                    <<toJSON(new)>>,
                                                    IF p.rotateSecret THEN new.secret
                                                    ELSE NoSecret,
                                                    req)
     /\ UNCHANGED <<listPending, deadLetter, task, idCtr, clock, nodeEnv, chatVars, auxVars>>

UpdateOf(patches) ==
  \E id \in WebhookIds, userId \in Users, p \in patches : updateWebhook(id, userId, p)

Update == UpdateOf(Patches)

\* deleteWebhook: findOneAndDelete({_id, userId})
deleteWebhook(id, userId) ==
  LET found == findOne(registry, id, userId)
      n == opCount + 1
  IN /\ opCount < MaxOps
     /\ opCount' = n
     /\ IF found = {}
          THEN /\ resp' = Response(n, "delete", userId, id, "Webhook not found",
                                   <<>>, NoSecret, NoReq)
               /\ UNCHANGED <<registry, cache>>
          ELSE /\ registry' = [i \in DOMAIN registry \ {id} |-> registry[i]]
               /\ cache' = [cache EXCEPT ![userId] = NoCache]
               /\ resp' = Response(n, "delete", userId, id, "ok", <<>>, NoSecret, NoReq)
     /\ UNCHANGED <<listPending, deadLetter, task, idCtr, secretCtr, clock, nodeEnv, chatVars, auxVars>>

Delete ==
  \E id \in WebhookIds, userId \in Users : deleteWebhook(id, userId)

\* getWebhook, serialized by GET /:webhookId
getWebhook(id, userId) ==
  LET found == findOne(registry, id, userId)
      n == opCount + 1
  IN /\ opCount < MaxOps
     /\ opCount' = n
     /\ resp' = IF found = {}
                  THEN Response(n, "get", userId, id, "Webhook not found",
                                <<>>, NoSecret, NoReq)
                  ELSE Response(n, "get", userId, id, "ok",
                                SerializeDocs(SeqOfSet(found)), NoSecret, NoReq)
     /\ UNCHANGED <<registry, cache, listPending, deadLetter, task, idCtr, secretCtr,
                    clock, nodeEnv, chatVars, auxVars>>

Get ==
  \E id \in WebhookIds, userId \in Users : getWebhook(id, userId)

\* GET /:webhookId/stats: getWebhook, then the listed fields and the counters
getStats(id, userId) ==
  LET found == findOne(registry, id, userId)
      n == opCount + 1
  IN /\ opCount < MaxOps
     /\ opCount' = n
     /\ resp' = IF found = {}
                  THEN Response(n, "stats", userId, id, "Webhook not found",
                                <<>>, NoSecret, NoReq)
                  ELSE LET d == CHOOSE x \in found : TRUE
                       IN Response(n, "stats", userId, id, "ok",
                                   <<[id |-> d.id, url |-> d.url, events |-> d.events,
                                      enabled |-> d.enabled,
                                      totalCalls |-> d.totalCalls,
                                      successfulCalls |-> d.successfulCalls,
                                      failedCalls |-> d.failedCalls]>>,
                                   NoSecret, NoReq)
     /\ UNCHANGED <<registry, cache, listPending, deadLetter, task, idCtr, secretCtr,
                    clock, nodeEnv, chatVars, auxVars>>

Stats ==
  \E id \in WebhookIds, userId \in Users : getStats(id, userId)

\* getUserWebhooks, first half: redisClient.get, and on a miss Webhook.find
ListStart ==
  \E userId \in Users :
    /\ opCount < MaxOps
    /\ ~listPending[userId].active
    /\ opCount' = opCount + 1
    /\ IF cache[userId].hit
         THEN /\ resp' = Response(opCount + 1, "list", userId, 0, "ok",
                                  cache[userId].val, NoSecret, NoReq)
              /\ UNCHANGED listPending
         ELSE /\ listPending' = [listPending EXCEPT ![userId] =
                                   [active |-> TRUE, docs |-> findByUser(registry, userId)]]
              /\ UNCHANGED resp
    /\ UNCHANGED <<registry, cache, deadLetter, task, idCtr, secretCtr, clock, nodeEnv, chatVars, auxVars>>

\* getUserWebhooks, second half: redisClient.set of the snapshot, then the response
ListStore ==
  \E userId \in Users :
    /\ listPending[userId].active
    /\ cache' = [cache EXCEPT ![userId] =
                   [hit |-> TRUE, val |-> SerializeDocs(listPending[userId].docs)]]
    /\ resp' = Response(opCount, "list", userId, 0, "ok",
                        SerializeDocs(listPending[userId].docs), NoSecret, NoReq)
    /\ listPending' = [listPending EXCEPT ![userId] = NoPending]
    /\ UNCHANGED <<registry, deadLetter, task, opCount, idCtr, secretCtr, clock, nodeEnv, chatVars, auxVars>>

\* the 300 s expiry of the cached list
CacheExpire ==
  \E userId \in Users :
    /\ cache[userId].hit
    /\ cache' = [cache EXCEPT ![userId] = NoCache]
    /\ UNCHANGED <<registry, listPending, deadLetter, task, resp, opCount, idCtr,
                   secretCtr, clock, nodeEnv, chatVars, auxVars>>

----------------------------------------------------------------------------
(* Deliveries: triggerWebhook, sendWebhook, retryDeadLetterQueue *)

Datas == {"d1"}

NoDoc == NewWebhook(0, NoUser, "", {}, NoSecret)

NoResult == [webhookId |-> 0, success |-> FALSE, attempts |-> 0,
             deadLettered |-> FALSE, skipped |-> FALSE]

NoTask ==
  [pc |-> "idle", kind |-> "none", eventType |-> "", data |-> "",
   targets |-> <<>>, idx |-> 0, attempt |-> 0, delays |-> <<>>, timeout |-> 0,
   ts |-> 0, cur |-> NoDoc, res |-> NoResult, results |-> <<>>]

\* the payload sendWebhook builds
Payload(eventType, data, ts, webhookId) ==
  [event |-> eventType, data |-> data, timestamp |-> ts, webhookId |-> webhookId]

\* addToDeadLetterQueue: the item it builds
DeadLetterItem(webhook, eventType, payload, now) ==
  [webhookId |-> webhook.id, userId |-> webhook.userId, url |-> webhook.url,
   eventType |-> eventType, payload |-> payload,
   error |-> [message |-> "request failed"],
   timestamp |-> now, attempts |-> maxRetries]

\* addToDeadLetterQueue: redisClient.zadd of the item inside try/catch.  The call
\* throws before anything is written and the catch block logs the error.
addToDeadLetterQueue(zset, webhook, eventType, payload, now) ==
  IF IsFunction("zadd")
    THEN Append(zset, DeadLetterItem(webhook, eventType, payload, now))
    ELSE zset

\* mutant: addToDeadLetterQueue without its catch block
addToDeadLetterQueueUncaught == ~IsFunction("zadd")

\* addToDeadLetterQueue: whether the call raises to sendWebhook.  The whole body is
\* inside try and the catch block logs queueError and falls through, so what zadd
\* throws stays inside.
addToDeadLetterQueueRaises == ~IsFunction("zadd") /\ FALSE

\* getDeadLetterQueue(start = 0, end = 50): redisClient.zrange inside try/catch;
\* the catch block returns []
getDeadLetterQueue(zset) ==
  IF IsFunction("zrange") THEN SubSeq(zset, 1, IF Len(zset) < 51 THEN Len(zset) ELSE 51)
  ELSE <<>>

\* the registry's view of a webhook at the moment a POST is issued to it
RegistryView(reg, id) ==
  IF id \notin DOMAIN reg THEN "deleted"
  ELSE IF reg[id].enabled THEN "enabled" ELSE "disabled"

\* the result objects sendWebhook returns and triggerWebhook pushes
SuccessResult(tk) ==
  [webhookId |-> tk.cur.id, success |-> TRUE, attempts |-> tk.attempt,
   deadLettered |-> FALSE, skipped |-> FALSE]

FailureResult(tk) ==
  [webhookId |-> tk.cur.id, success |-> FALSE, attempts |-> tk.attempt,
   deadLettered |-> TRUE, skipped |-> FALSE]

SkippedResult(webhook) ==
  [webhookId |-> webhook.id, success |-> FALSE, attempts |-> 0,
   deadLettered |-> FALSE, skipped |-> TRUE]

\* a call that has returned: what is left of it is its kind and its results
Returned(tk) == [NoTask EXCEPT !.pc = "done", !.kind = tk.kind, !.results = tk.results]

\* a call that has thrown: an error raised inside sendWebhook's catch block leaves
\* sendWebhook, and triggerWebhook's catch block logs it and throws it again
Threw(tk) == [NoTask EXCEPT !.pc = "threw", !.kind = tk.kind]

\* respondToOffer after its own saves: it awaits triggerWebhook inside its try block;
\* an error lands in the catch block that answers 500, a return goes on to res.json
CallerStatus(tk) == IF tk.pc = "threw" THEN 500 ELSE 200

\* sendWebhook up to its first axios.post: attempt = 1, no delay waited yet; every
\* axios.post of the send is given timeout: this.timeout
BeginSend(tk, webhook, eventType, data, now) ==
  [tk EXCEPT !.pc = "inflight", !.cur = webhook, !.eventType = eventType,
             !.data = data, !.attempt = 1, !.delays = <<>>, !.timeout = timeout,
             !.ts = now]

RECURSIVE TriggerLoop(_, _, _)
\* triggerWebhook's for loop from index i on, up to the next await
TriggerLoop(tk, i, now) ==
  IF i > Len(tk.targets) THEN Returned(tk)
  ELSE IF ~tk.targets[i].enabled
    THEN TriggerLoop([tk EXCEPT !.results = Append(@, SkippedResult(tk.targets[i]))],
                     i + 1, now)
    ELSE BeginSend([tk EXCEPT !.idx = i], tk.targets[i], tk.eventType, tk.data, now)

\* the summary triggerWebhook returns
Summary(tk) ==
  LET ok == {i \in 1..Len(tk.results) : tk.results[i].success}
      bad == {i \in 1..Len(tk.results) :
                ~tk.results[i].success /\ ~tk.results[i].skipped}
  IN [success |-> bad = {}, triggered |-> Cardinality(ok), failed |-> Cardinality(bad)]

\* a step that starts a sendWebhook stamps its payload with the time
Issue(t, new) ==
  /\ task' = [task EXCEPT ![t] = new]
  /\ clock' = IF new.pc = "inflight" /\ new.attempt = 1 THEN clock + 1 ELSE clock

\* triggerWebhook up to the first POST: getWebhooksForEvent, then the loop
TriggerOf(eventTypes, owners) ==
  \E t \in TaskIds, eventType \in eventTypes, data \in Datas, userId \in owners :
    /\ task[t].pc = "idle"
    /\ \A u \in 1..(t - 1) : task[u].pc # "idle"
    /\ LET tk == [NoTask EXCEPT !.kind = "trigger", !.eventType = eventType,
                                !.data = data,
                                !.targets = getWebhooksForEvent(registry, eventType, userId)]
       IN Issue(t, TriggerLoop(tk, 1, clock + 1))
    /\ UNCHANGED <<registry, cache, listPending, deadLetter, resp, opCount, idCtr,
                   secretCtr, nodeEnv, chatVars, auxVars>>

TriggerStart == TriggerOf(EventTypes, {NoUser, "u1"})

\* testWebhook up to the first POST: getWebhook (findOne by _id and owner, 'Webhook
\* not found' when there is none), 'Webhook is disabled', then sendWebhook with the
\* event 'test'
TestStart ==
  \E t \in TaskIds, id \in WebhookIds, userId \in Users :
    /\ task[t].pc = "idle"
    /\ \A u \in 1..(t - 1) : task[u].pc # "idle"
    /\ LET found == findOne(registry, id, userId)
           tk == [NoTask EXCEPT !.kind = "test", !.eventType = "test", !.data = "test"]
       IN IF found = {} \/ \E d \in found : ~d.enabled
            THEN Issue(t, Threw(tk))
            ELSE Issue(t, BeginSend(tk, CHOOSE d \in found : TRUE, "test", "test",
                                    clock + 1))
    /\ UNCHANGED <<registry, cache, listPending, deadLetter, resp, opCount, idCtr,
                   secretCtr, nodeEnv, chatVars, auxVars>>

\* the caller of sendWebhook after it returned res: triggerWebhook goes on to
\* updateWebhookStats; testWebhook returns what the result says
AfterSend(tk, res) ==
  IF tk.kind = "test"
    THEN [Returned(tk) EXCEPT !.results = <<res>>]
    ELSE [tk EXCEPT !.res = res, !.pc = "stats"]

\* axios.post settles: a 2xx response, or a failure (status, timeout, network).
\* After a failure with attempts left the delay retryDelays[attempt - 1] (the array is
\* 0-based in the source, the sequence 1-based here) passes and the next POST goes out;
\* after the last one sendWebhook calls addToDeadLetterQueue and returns.
PostReturn ==
  \E t \in TaskIds, ok \in BOOLEAN :
    /\ task[t].pc = "inflight"
    /\ LET tk == task[t] IN
       IF ok
         THEN /\ task' = [task EXCEPT ![t] = AfterSend(tk, SuccessResult(tk))]
              /\ UNCHANGED deadLetter
         ELSE IF tk.attempt < maxRetries
           THEN /\ task' = [task EXCEPT ![t] =
                              [tk EXCEPT !.delays = Append(@, retryDelays[tk.attempt]),
                                         !.attempt = @ + 1]]
                /\ UNCHANGED deadLetter
           ELSE /\ deadLetter' = addToDeadLetterQueue(deadLetter, tk.cur, tk.eventType,
                                   Payload(tk.eventType, tk.data, tk.ts, tk.cur.id), clock)
                /\ task' = [task EXCEPT ![t] =
                              IF addToDeadLetterQueueRaises THEN Threw(tk)
                              ELSE AfterSend(tk, FailureResult(tk))]
    /\ UNCHANGED <<registry, cache, listPending, resp, opCount, idCtr, secretCtr, clock,
                   nodeEnv, chatVars, auxVars>>

\* mutant: the counters are written from the document the dispatch found when it
\* started, as a read-modify-write would
StatsStepFromSnapshot ==
  \E t \in TaskIds :
    /\ task[t].pc = "stats"
    /\ registry' = IF task[t].cur.id \in DOMAIN registry
                     THEN [registry EXCEPT ![task[t].cur.id] =
                             StatsInc(task[t].cur, task[t].res.success)]
                     ELSE registry
    /\ LET tk == [task[t] EXCEPT !.results = Append(@, task[t].res)]
       IN Issue(t, TriggerLoop(tk, tk.idx + 1, clock + 1))
    /\ UNCHANGED <<cache, listPending, deadLetter, resp, opCount, idCtr, secretCtr,
                   nodeEnv, chatVars, auxVars>>

\* triggerWebhook after sendWebhook returned: updateWebhookStats, then the loop
StatsStep ==
  \E t \in TaskIds :
    /\ task[t].pc = "stats"
    /\ registry' = updateWebhookStats(registry, task[t].cur.id, task[t].res.success)
    /\ LET tk == [task[t] EXCEPT !.results = Append(@, task[t].res)]
       IN Issue(t, TriggerLoop(tk, tk.idx + 1, clock + 1))
    /\ UNCHANGED <<cache, listPending, deadLetter, resp, opCount, idCtr, secretCtr,
                   nodeEnv, chatVars, auxVars>>

\* retryDeadLetterQueue: getDeadLetterQueue returns no items, the for loop has
\* nothing to go through, and the call returns no results
retryDeadLetterQueue ==
  \E t \in TaskIds :
    /\ task[t].pc = "idle"
    /\ \A u \in 1..(t - 1) : task[u].pc # "idle"
    /\ getDeadLetterQueue(deadLetter) = <<>>
    /\ task' = [task EXCEPT ![t] = Returned([NoTask EXCEPT !.kind = "retry"])]
    /\ UNCHANGED <<registry, cache, listPending, deadLetter, resp, opCount, idCtr,
                   secretCtr, clock, nodeEnv, chatVars, auxVars>>

----------------------------------------------------------------------------
(* Signatures: generateSignature, verifySignature *)

\* JSON.stringify(payload): the members in insertion order
JSONStringify(payload) ==
  <<<<"event", payload.event>>, <<"data", payload.data>>,
    <<"timestamp", payload.timestamp>>, <<"webhookId", payload.webhookId>>>>

\* a string that is not the output of an HMAC: its length and its text
Literal(chars, text) ==
  [chars |-> chars, kind |-> "literal", key |-> NoSecret, msg |-> <<>>, text |-> text]

\* crypto.createHmac('sha256', secret).update(message).digest('hex'): 64 hexadecimal
\* characters; different keys or messages give different digests
HmacSha256Hex(secret, message) ==
  [chars |-> 64, kind |-> "hmac", key |-> secret, msg |-> message, text |-> ""]

\* generateSignature
generateSignature(payload, secret) == HmacSha256Hex(secret, JSONStringify(payload))

\* Buffer.from(string): the bytes of the string, one per character here
BufferFrom(str) == [byteLength |-> str.chars, bytes |-> str]

\* crypto.timingSafeEqual(a, b): throws RangeError when the byte lengths differ
timingSafeEqual(a, b) ==
  IF a.byteLength # b.byteLength THEN "RangeError"
  ELSE IF a.bytes = b.bytes THEN "true" ELSE "false"

\* verifySignature
verifySignature(payload, signature, secret) ==
  timingSafeEqual(BufferFrom(signature), BufferFrom(generateSignature(payload, secret)))

\* the arguments verifySignature is called with
VerifyPayloads ==
  {Payload(e, d, ts, 1) : e \in {"message:created", "offer.accepted"},
                          d \in {"d1", "d2"}, ts \in 1..2}

VerifySecrets == {generateSecret(1), generateSecret(2), SuppliedSecret}

VerifySignatures ==
  {generateSignature(p, k) : p \in VerifyPayloads, k \in VerifySecrets}
    \cup {Literal(64, "0...0"), Literal(71, "sha256=..."), Literal(5, "wrong"),
          Literal(0, "")}

NoVerification ==
  [payload |-> Payload("", "", 0, 0), signature |-> Literal(0, ""), secret |-> NoSecret,
   result |-> "idle"]

\* a receiver calls verifySignature(payload, signature, secret)
VerifySignatureCall ==
  /\ verification.result = "none"
  /\ verification' = [verification EXCEPT !.result =
                        verifySignature(verification.payload, verification.signature,
                                        verification.secret)]
  /\ UNCHANGED <<webhookVars, chatVars, dateNow, redisUrlSet, lastCall>>

----------------------------------------------------------------------------
(* The chat message pipeline: src/services/messageQueue.js, src/socket/socket.js *)

\* defaultJobOptions.attempts of the chat-messages queue
messageAttempts == 3

Recipient == "u2"
ChatId == "c1"

\* setUserSession: await this.expire(key, 86400)
SessionTtl == 86400

\* the redis hash user:<recipient>:session: its socketId field (0 when it has none),
\* its lastSeen field (-1 when it has none) and the time its TTL ends (0 without TTL)
NoHash == [socketId |-> 0, lastSeen |-> -1, expireAt |-> 0]

\* redis removes a key when its TTL has passed
Live(h, t) == IF h.expireAt # 0 /\ t >= h.expireAt THEN NoHash ELSE h

\* RedisClient.hset.  With REDIS_URL unset this.client is the mock client: it defines
\* hSet, hGetAll and expire, so the wrappers call them (the in-memory fallback of
\* setUserSession and getUserSession is not taken), and they resolve without storing.
\* HSET leaves the TTL of an existing key as it is.
hset(h, field, value, t, url) ==
  IF url THEN [Live(h, t) EXCEPT ![field] = value] ELSE h

\* RedisClient.expire: EXPIRE sets the TTL of an existing key
expire(h, seconds, t, url) ==
  IF url /\ Live(h, t) # NoHash THEN [Live(h, t) EXCEPT !.expireAt = t + seconds]
  ELSE IF url THEN NoHash ELSE h

\* RedisClient.hgetall
hgetall(h, t, url) == IF url THEN Live(h, t) ELSE NoHash

\* getUserSession: null when the hash has no socketId
NoSession == [found |-> FALSE, socketId |-> 0, lastSeen |-> -1]

getUserSession(h, t, url) ==
  LET s == hgetall(h, t, url)
  IN IF s.socketId = 0 THEN NoSession
     ELSE [found |-> TRUE, socketId |-> s.socketId, lastSeen |-> s.lastSeen]

\* socket.js isUserOnline: redisClient.isUserOnline inside try/catch; the catch
\* block returns false
isUserOnline(onl) == IF IsFunction("isUserOnline") THEN onl ELSE FALSE

\* socket.js getUserPresence: the same call, then getUserSession; the catch block
\* returns isOnline: false and the error message
getUserPresence(h, onl, t, url) ==
  IF IsFunction("isUserOnline")
    THEN [isOnline |-> onl, socketId |-> getUserSession(h, t, url).socketId,
          error |-> FALSE]
    ELSE [isOnline |-> FALSE, socketId |-> 0, error |-> TRUE]

NoCall == [op |-> "none", socketId |-> 0, at |-> 0, error |-> "none", repeated |-> FALSE]

\* job.data of a send-message job for message m, and what the processor emits
JobData(m) ==
  [chatId |-> ChatId, message |-> [id |-> m], sender |-> [id |-> "u1"],
   recipientId |-> Recipient]

OfflinePayload(data) ==
  [chatId |-> data.chatId, message |-> data.message, sender |-> data.sender]

NoJob == [state |-> "none", type |-> "none", priority |-> 0, attemptsMade |-> 0,
          result |-> "none"]

\* message types the controllers enqueue
MessageTypes == {"text", "offer"}

\* sendMessage: priority: type === 'offer' ? 2 : 1; sendOffer: priority: 2
ControllerPriority(type) == IF type = "offer" THEN 2 ELSE 1

\* enqueueMessage: priority: messageData.priority || 1
JobPriority(priority) == IF priority = 0 THEN 1 ELSE priority

\* Bull takes waiting jobs in the order of their priority option, where 1 is the
\* highest priority and larger numbers are lower ones; jobs of equal priority are
\* taken in no order the model relies on
BullTakes(jobs, m) ==
  /\ jobs[m].state = "waiting"
  /\ \A k \in DOMAIN jobs :
       jobs[k].state = "waiting" => jobs[m].priority <= jobs[k].priority
NoSock == [pc |-> "none", alive |-> FALSE, joined |-> FALSE]

\* io.to(`chat_${chatId}`).emit: the sockets in the room receive the event
RoomEmit(m) ==
  {[sock |-> x, msg |-> m, wasOffline |-> FALSE] :
     x \in {y \in Sockets : sock[y].alive /\ sock[y].joined}}

\* enqueueOfflineMessage: redisClient.zadd of the stringified payload inside
\* try/catch.  The call throws before anything is written; the catch block returns
\* {success: false}, which the processor does not look at.
enqueueOfflineMessage(zset, messageData) ==
  IF IsFunction("zadd") THEN Append(zset, messageData) ELSE zset

\* the lifetime enqueueOfflineMessage gives the sorted set, in seconds (7 days)
OfflineTtl == 604800

\* enqueueOfflineMessage: redisClient.expire(key, 604800) after the zadd, in the same
\* try block; it is not reached when the zadd throws
enqueueOfflineMessageExpire(expireAt, now) ==
  IF IsFunction("zadd") /\ IsFunction("expire") THEN now + OfflineTtl ELSE expireAt

\* getOfflineMessages: redisClient.zrange inside try/catch; the catch returns []
getOfflineMessages(zset) == IF IsFunction("zrange") THEN zset ELSE <<>>

\* initializeSocket
InitializeSocket ==
  /\ ~io
  /\ io' = TRUE
  /\ UNCHANGED <<sock, session, online, offline, offlineExpireAt, receipts, mq, pushed, webhookVars, auxVars>>

\* a client of the recipient connects and passes the authentication middleware
Connect ==
  \E x \in Sockets :
    /\ io
    /\ sock[x].pc = "none"
    /\ \A y \in 1..(x - 1) : sock[y].pc # "none"
    /\ sock' = [sock EXCEPT ![x] = [pc |-> "setUserSession", alive |-> TRUE,
                                    joined |-> FALSE]]
    /\ UNCHANGED <<io, session, online, offline, offlineExpireAt, receipts, mq, pushed, webhookVars, auxVars>>

\* connection handler: redisClient.setUserSession up to its first await, the hset of
\* socketId.  The commands of the calls reach redis in the order they are issued.
ConnHsetSocketId ==
  \E x \in Sockets :
    /\ sock[x].pc = "setUserSession"
    /\ session' = hset(session, "socketId", x, dateNow, redisUrlSet)
    /\ sock' = [sock EXCEPT ![x].pc = "hsetLastSeen"]
    /\ lastCall' = [NoCall EXCEPT !.op = "markOnline", !.socketId = x, !.at = dateNow]
    /\ UNCHANGED <<io, online, offline, offlineExpireAt, receipts, mq, pushed, webhookVars,
                   verification, dateNow, redisUrlSet>>

\* setUserSession: the hset of lastSeen (new Date().toISOString(), kept here as the
\* time it stands for) and of userData
ConnHsetLastSeen ==
  \E x \in Sockets :
    /\ sock[x].pc = "hsetLastSeen"
    /\ session' = hset(session, "lastSeen", dateNow, dateNow, redisUrlSet)
    /\ sock' = [sock EXCEPT ![x].pc = "expire"]
    /\ UNCHANGED <<io, online, offline, offlineExpireAt, receipts, mq, pushed, webhookVars, auxVars>>

\* setUserSession: expire(key, 86400), and the return to the connection handler
ConnExpire ==
  \E x \in Sockets :
    /\ sock[x].pc = "expire"
    /\ session' = expire(session, SessionTtl, dateNow, redisUrlSet)
    /\ sock' = [sock EXCEPT ![x].pc = "setUserOnline"]
    /\ UNCHANGED <<io, online, offline, offlineExpireAt, receipts, mq, pushed, webhookVars, auxVars>>

\* connection handler: redisClient.setUserOnline(userId) throws, the async handler
\* rejects, and the rest of it (deliverOfflineMessages, the socket.on registrations
\* of chat:join and disconnect) never runs for this socket
ConnSetUserOnline ==
  \E x \in Sockets :
    /\ sock[x].pc = "setUserOnline"
    /\ ~IsFunction("setUserOnline")
    /\ sock' = [sock EXCEPT ![x].pc = "rejected"]
    /\ UNCHANGED <<io, session, online, offline, offlineExpireAt, receipts, mq, pushed, webhookVars, auxVars>>

\* the client goes away; no disconnect listener was registered
Disconnect ==
  \E x \in Sockets :
    /\ sock[x].alive
    /\ sock' = [sock EXCEPT ![x].alive = FALSE]
    /\ UNCHANGED <<io, session, online, offline, offlineExpireAt, receipts, mq, pushed, webhookVars, auxVars>>

\* the listener the connection handler passes to socket.on('disconnect'), run for
\* the recipient: redisClient.setUserOffline, then redisClient.removeUserSession.
\* The first call throws and the async listener rejects.
OnDisconnect ==
  /\ lastCall' = [NoCall EXCEPT !.op = "markOffline", !.at = dateNow,
                                !.error = IF IsFunction("setUserOffline")
                                              /\ IsFunction("removeUserSession")
                                            THEN "none" ELSE "TypeError",
                                !.repeated = (lastCall.op = "markOffline")]
  /\ online' = IF IsFunction("setUserOffline") THEN FALSE ELSE online
  /\ session' = IF IsFunction("setUserOffline") /\ IsFunction("removeUserSession")
                  THEN NoHash ELSE session
  /\ UNCHANGED <<io, sock, offline, offlineExpireAt, receipts, mq, pushed, webhookVars,
                 verification, dateNow, redisUrlSet>>

\* time passes
Tick ==
  /\ dateNow < MaxTicks * (SessionTtl \div 2)
  /\ dateNow' = dateNow + (SessionTtl \div 2)
  /\ UNCHANGED <<webhookVars, chatVars, verification, redisUrlSet, lastCall>>

\* enqueueMessage: messageQueue.add('send-message', ...)
enqueueMessage ==
  \E m \in MsgIds, type \in MessageTypes :
    /\ mq[m].state = "none"
    /\ \A k \in 1..(m - 1) : mq[k].state # "none"
    /\ mq' = [mq EXCEPT ![m].state = "waiting", ![m].type = type,
                         ![m].priority = JobPriority(ControllerPriority(type))]
    /\ UNCHANGED <<io, sock, session, online, offline, offlineExpireAt, receipts, pushed, webhookVars, auxVars>>

\* send-message processor up to its await: with io, the emit to the chat room and
\* the call of redisClient.set; without io, enqueueOfflineMessage and the return
ProcessSendMessage ==
  \E m \in MsgIds :
    /\ BullTakes(mq, m)
    /\ IF io
         THEN /\ pushed' = pushed \cup RoomEmit(m)
              /\ mq' = [mq EXCEPT ![m].state = "active"]
              /\ UNCHANGED <<offline, offlineExpireAt>>
         ELSE /\ offline' = enqueueOfflineMessage(offline, OfflinePayload(JobData(m)))
              /\ offlineExpireAt' = enqueueOfflineMessageExpire(offlineExpireAt, dateNow)
              /\ mq' = [mq EXCEPT ![m].state = "completed",
                                   ![m].attemptsMade = @ + 1,
                                   ![m].result = "queuedOffline"]
              /\ UNCHANGED pushed
    /\ UNCHANGED <<io, sock, session, online, receipts, webhookVars, auxVars>>

\* redisClient.set of the delivery receipt settles.  A rejection (or the job's 10 s
\* timeout) fails the attempt; Bull runs the job again until attempts are used up,
\* and the 'failed' listener only logs.
ReceiptSettles ==
  \E m \in MsgIds, ok \in BOOLEAN :
    /\ mq[m].state = "active"
    /\ LET made == mq[m].attemptsMade + 1 IN
       IF ok
         THEN /\ receipts' = receipts \cup {m}
              /\ mq' = [mq EXCEPT ![m].state = "completed", ![m].attemptsMade = made,
                                   ![m].result = "deliveredViaSocket"]
         ELSE /\ UNCHANGED receipts
              /\ mq' = [mq EXCEPT ![m].state = IF made >= messageAttempts THEN "failed"
                                               ELSE "waiting",
                                   ![m].attemptsMade = made]
    /\ UNCHANGED <<io, sock, session, online, offline, offlineExpireAt, pushed, webhookVars, auxVars>>

InitChat ==
  /\ io = FALSE
  /\ sock = [x \in Sockets |-> NoSock]
  /\ session = NoHash
  /\ online = FALSE
  /\ offline = <<>>
  /\ offlineExpireAt = 0
  /\ receipts = {}
  /\ mq = [m \in MsgIds |-> NoJob]
  /\ pushed = {}

----------------------------------------------------------------------------

\* the stores and counters of the webhook service when the server has started
InitRegistry ==
  /\ registry = <<>>
  /\ cache = [u \in Users |-> NoCache]
  /\ listPending = [u \in Users |-> NoPending]
  /\ deadLetter = <<>>
  /\ task = [t \in TaskIds |-> NoTask]
  /\ resp = NoResp
  /\ opCount = 0
  /\ idCtr = 0
  /\ secretCtr = 0
  /\ clock = 0

InitAux ==
  /\ verification = NoVerification
  /\ dateNow = 0
  /\ redisUrlSet = TRUE
  /\ lastCall = NoCall

InitW ==
  /\ InitRegistry
  /\ nodeEnv \in {"production", "development"}
  /\ InitChat
  /\ InitAux

NextW ==
  \/ Register
  \/ Update
  \/ Delete
  \/ Get
  \/ Stats
  \/ ListStart
  \/ ListStore
  \/ CacheExpire

SpecRegistry == InitW /\ [][NextW]_vars

\* The dispatcher, with the registry requests that change what it resolves
WildcardEvents == [isArray |-> FALSE, items |-> {}, scalar |-> "*"]
ExactEvents == [isArray |-> TRUE, items |-> {"message:created"}, scalar |-> ""]

DispatchPatches ==
  { Patch(FALSE, GoodUrl, FALSE, NoPatchEvents, TRUE, FALSE, FALSE),
    Patch(FALSE, GoodUrl, FALSE, NoPatchEvents, TRUE, TRUE, FALSE) }

RegisterTarget ==
  \/ RegisterOf({"u1"}, {GoodUrl}, {WildcardEvents}, {NoSecret}, {NoOpts})
  \/ RegisterOf({"u2"}, {GoodUrl}, {ExactEvents}, {NoSecret}, {NoOpts})

\* the owner enables or disables a target, or removes it
UpdateTarget ==
  \E id \in DOMAIN registry, p \in DispatchPatches :
    updateWebhook(id, registry[id].userId, p)

DeleteTarget ==
  \E id \in DOMAIN registry : deleteWebhook(id, registry[id].userId)

InitD == InitW /\ nodeEnv = "production"

NextD ==
  \/ RegisterTarget
  \/ UpdateTarget
  \/ DeleteTarget
  \/ TriggerStart
  \/ PostReturn
  \/ StatsStep
  \/ retryDeadLetterQueue

SpecDispatch == InitD /\ [][NextD]_vars

\* URL validation: the owner registers targets and changes their URL, under each
\* value of NODE_ENV
Envs == {"production", "development", "staging"}

UrlInputs ==
  {GoodUrl, BadUrl, HttpUrl, PortUrl, PrivateUrl, Private172Url, LocalhostUrl,
   LoopbackV6Url}

UrlPatches == {Patch(TRUE, u, FALSE, NoPatchEvents, FALSE, FALSE, FALSE) : u \in UrlInputs}

RegisterUrl == RegisterOf({"u1"}, UrlInputs, {WildcardEvents}, {NoSecret}, {NoOpts})

UpdateUrl ==
  \E id \in DOMAIN registry, p \in UrlPatches : updateWebhook(id, registry[id].userId, p)

InitU ==
  /\ InitRegistry
  /\ nodeEnv \in Envs
  /\ InitChat
  /\ InitAux

NextU ==
  \/ RegisterUrl
  \/ UpdateUrl

SpecUrl == InitU /\ [][NextU]_vars

\* Deliveries by every operation that sends: event dispatch, test delivery,
\* dead-letter retry
RegisterOwn == RegisterOf({"u1"}, {GoodUrl}, {WildcardEvents}, {NoSecret}, {NoOpts})

NextM ==
  \/ RegisterOwn
  \/ TriggerStart
  \/ TestStart
  \/ PostReturn
  \/ StatsStep
  \/ retryDeadLetterQueue

SpecManual == InitD /\ [][NextM]_vars

\* The retries of a dispatch of offer.accepted, the event respondToOffer triggers
\* with the id of the user who accepted
TriggerOfferAccepted == TriggerOf({"offer.accepted"}, {"u1"})

NextB ==
  \/ RegisterTarget
  \/ TriggerOfferAccepted
  \/ PostReturn
  \/ StatsStep

SpecBackoff == InitD /\ [][NextB]_vars

\* The retry policy: the owner registers targets with and without maxRetries and
\* timeout in the request body, and offer.accepted is dispatched to them
PolicyOpts == {NoOpts, Opts(TRUE, 1, TRUE, 2000), Opts(TRUE, 5, FALSE, 0)}

RegisterPolicy == RegisterOf({"u1"}, {GoodUrl}, {WildcardEvents}, {NoSecret}, PolicyOpts)

NextY ==
  \/ RegisterPolicy
  \/ TriggerOfferAccepted
  \/ PostReturn
  \/ StatsStep

SpecPolicy == InitD /\ [][NextY]_vars

\* The chat message pipeline
NextC ==
  \/ InitializeSocket
  \/ Connect
  \/ ConnHsetSocketId
  \/ ConnHsetLastSeen
  \/ ConnExpire
  \/ ConnSetUserOnline
  \/ Disconnect
  \/ enqueueMessage
  \/ ProcessSendMessage
  \/ ReceiptSettles

SpecChat == InitD /\ [][NextC]_vars

\* The presence directory: the connection handler's setUserSession, the disconnect
\* listener, and the passing of time, with REDIS_URL set or not
InitP ==
  /\ InitRegistry
  /\ nodeEnv = "production"
  /\ InitChat
  /\ verification = NoVerification
  /\ dateNow = 0
  /\ redisUrlSet \in BOOLEAN
  /\ lastCall = NoCall

NextP ==
  \/ InitializeSocket
  \/ Connect
  \/ ConnHsetSocketId
  \/ ConnHsetLastSeen
  \/ ConnExpire
  \/ ConnSetUserOnline
  \/ OnDisconnect
  \/ Tick

SpecPresence == InitP /\ [][NextP]_vars

\* Signature verification over the arguments a receiver may pass
InitV ==
  /\ InitRegistry
  /\ nodeEnv = "production"
  /\ InitChat
  /\ dateNow = 0
  /\ redisUrlSet = TRUE
  /\ lastCall = NoCall
  /\ verification \in [payload : VerifyPayloads, signature : VerifySignatures,
                       secret : VerifySecrets, result : {"none"}]

NextV == VerifySignatureCall

SpecVerify == InitV /\ [][NextV]_vars

----------------------------------------------------------------------------
(* Properties of the dispatcher, checked under SpecDispatch *)

\* the results of kind ok that finished triggerWebhook sends recorded for webhook w
Recorded(w, ok) ==
  {p \in TaskIds \X (1..MaxWebhooks) :
     /\ task[p[1]].kind = "trigger"
     /\ p[2] <= Len(task[p[1]].results)
     /\ task[p[1]].results[p[2]].webhookId = w
     /\ ~task[p[1]].results[p[2]].skipped
     /\ task[p[1]].results[p[2]].success = ok}

\* the dead-letter records of the delivery that task record tk is sending
RecordsOf(zset, tk) ==
  {i \in 1..Len(zset) : /\ zset[i].webhookId = tk.cur.id
                        /\ zset[i].payload.timestamp = tk.ts}

\* C3: a dispatch that fails on all maxRetries attempts adds exactly one dead-letter
\* record for that delivery and leaves the other records alone; the statistics of the
\* subscription then move by total+1 and failure+1, once; and a dead-letter retry
\* that reports a successful re-attempt leaves no record of that subscription's
\* delivery behind.
C3_ExhaustedStep ==
  \A t \in TaskIds :
    LET tk == task[t]
        nx == task'[t]
        id == tk.cur.id
    IN /\ (tk.pc = "inflight" /\ tk.kind = "trigger" /\ nx.pc = "stats" /\ ~nx.res.success)
            => /\ tk.attempt = maxRetries
               /\ Len(deadLetter') = Len(deadLetter) + 1
               /\ SubSeq(deadLetter', 1, Len(deadLetter)) = deadLetter
               /\ Cardinality(RecordsOf(deadLetter', tk)) = 1
       /\ (tk.pc = "stats" /\ ~tk.res.success /\ nx # tk)
            => /\ nx.pc # "stats" \/ nx.idx > tk.idx
               /\ id \in DOMAIN registry =>
                    /\ registry'[id].totalCalls = registry[id].totalCalls + 1
                    /\ registry'[id].failedCalls = registry[id].failedCalls + 1
                    /\ registry'[id].successfulCalls = registry[id].successfulCalls
       /\ (nx.kind = "retry" /\ nx.pc = "done" /\ tk.pc # "done")
            => \A i \in 1..Len(nx.results) :
                 nx.results[i].success =>
                   \A k \in 1..Len(deadLetter') :
                     deadLetter'[k].webhookId # nx.results[i].webhookId

C3_ExhaustedDeadLettersOnce ==
  /\ [](\A w \in DOMAIN registry :
          registry[w].failedCalls = Cardinality(Recorded(w, FALSE)))
  /\ [][C3_ExhaustedStep]_vars

\* C4: a dispatch that succeeds on attempt N after N-1 failures writes no dead-letter
\* record and moves the statistics of the subscription by total+1 and success+1, with
\* failure unchanged, once.
C4_SuccessStep ==
  \A t \in TaskIds :
    LET tk == task[t]
        nx == task'[t]
        id == tk.cur.id
    IN /\ (tk.pc = "inflight" /\ tk.kind = "trigger" /\ nx.pc = "stats" /\ nx.res.success)
            => /\ deadLetter' = deadLetter
               /\ nx.res.attempts = tk.attempt
               /\ tk.attempt \in 1..maxRetries
               /\ registry' = registry
       /\ (tk.pc = "stats" /\ tk.res.success /\ nx # tk)
            => /\ nx.pc # "stats" \/ nx.idx > tk.idx
               /\ deadLetter' = deadLetter
               /\ id \in DOMAIN registry =>
                    /\ registry'[id].totalCalls = registry[id].totalCalls + 1
                    /\ registry'[id].successfulCalls = registry[id].successfulCalls + 1
                    /\ registry'[id].failedCalls = registry[id].failedCalls

C4_SuccessCountedOnce ==
  /\ [](\A w \in DOMAIN registry :
          /\ registry[w].successfulCalls = Cardinality(Recorded(w, TRUE))
          /\ registry[w].totalCalls =
               Cardinality(Recorded(w, TRUE)) + Cardinality(Recorded(w, FALSE)))
  /\ [][C4_SuccessStep]_vars

\* C4 witness: a dispatch succeeded on its last attempt, was counted once as a
\* success, and no dead-letter record exists.
C4_Witness ==
  /\ deadLetter = <<>>
  /\ \E t \in TaskIds, w \in DOMAIN registry :
       /\ task[t].kind = "trigger" /\ task[t].pc = "done"
       /\ \E i \in 1..Len(task[t].results) :
            /\ task[t].results[i].webhookId = w
            /\ task[t].results[i].success
            /\ task[t].results[i].attempts = maxRetries
       /\ registry[w].totalCalls = 1
       /\ registry[w].successfulCalls = 1
       /\ registry[w].failedCalls = 0

\* C18: a dispatch never raises to the caller that emitted the event, whether any or
\* all of its targets fail on every attempt: it returns a summary that counts the
\* failed targets, and the caller goes on to answer 200.
C18_DispatchNeverRaises ==
  \A t \in TaskIds :
    /\ task[t].pc # "threw"
    /\ (task[t].kind = "trigger" /\ task[t].pc = "done") =>
         /\ CallerStatus(task[t]) = 200
         /\ Summary(task[t]).failed =
              Cardinality({i \in 1..Len(task[t].results) : task[t].results[i].deadLettered})
         /\ Summary(task[t]).success = (Summary(task[t]).failed = 0)

\* C18 witness: a dispatch returned after every one of its two targets failed on all
\* attempts.
C18_Witness ==
  \E t \in TaskIds :
    /\ task[t].kind = "trigger" /\ task[t].pc = "done"
    /\ Len(task[t].results) = MaxWebhooks
    /\ \A i \in 1..Len(task[t].results) :
         /\ task[t].results[i].deadLettered
         /\ task[t].results[i].attempts = maxRetries
    /\ Summary(task[t]).failed = MaxWebhooks
    /\ CallerStatus(task[t]) = 200

\* C19: statistics updates tolerate concurrent dispatch.  Every update of a dispatch
\* adds exactly one to totalCalls of its subscription, whatever other dispatches to the
\* same subscription did since this one read it, so totalCalls equals the number of
\* completed sends; and in every reachable state totalCalls = successfulCalls +
\* failedCalls.
C19_UpdateStep ==
  \A t \in TaskIds :
    LET tk == task[t]
        id == tk.cur.id
    IN (tk.pc = "stats" /\ task'[t] # tk /\ id \in DOMAIN registry) =>
         /\ registry'[id].totalCalls = registry[id].totalCalls + 1
         /\ registry'[id].successfulCalls + registry'[id].failedCalls
              = registry[id].successfulCalls + registry[id].failedCalls + 1
         /\ \A w \in DOMAIN registry \ {id} : registry'[w] = registry[w]

C19_NoLostUpdate ==
  /\ [](\A w \in DOMAIN registry :
          /\ registry[w].totalCalls = registry[w].successfulCalls + registry[w].failedCalls
          /\ registry[w].totalCalls =
               Cardinality({p \in TaskIds \X (1..MaxWebhooks) :
                             /\ p[2] <= Len(task[p[1]].results)
                             /\ task[p[1]].results[p[2]].webhookId = w
                             /\ ~task[p[1]].results[p[2]].skipped}))
  /\ [][C19_UpdateStep]_vars

\* C19 witness: two dispatches to the same subscription overlap.  The second one has
\* completed and was counted while the first, which read the subscription with
\* totalCalls = 0, is about to write its own update.
C19_Witness ==
  \E w \in DOMAIN registry :
    /\ task[1].kind = "trigger" /\ task[1].pc = "stats"
    /\ task[1].cur.id = w /\ task[1].cur.totalCalls = 0
    /\ task[2].kind = "trigger" /\ task[2].pc = "done"
    /\ \E i \in 1..Len(task[2].results) :
         task[2].results[i].webhookId = w /\ ~task[2].results[i].skipped
    /\ registry[w].totalCalls = 1

\* a step in which call t runs retryDeadLetterQueue to its return
RetryReturns(t) ==
  task[t].pc = "idle" /\ task'[t].kind = "retry" /\ task'[t].pc = "done"

\* C22: retryDeadLetterQueue processes every dead-letter record: for each delivery that
\* sendWebhook reported as dead-lettered, a retry without a filter re-attempts one
\* delivery when the subscription is still stored and enabled, and makes none when it
\* was deleted or disabled; a record leaves the store only when its re-attempt
\* succeeded.
C22_RetryStep ==
  \A t \in TaskIds :
    RetryReturns(t) =>
      /\ \A w \in WebhookIds :
           Cardinality({i \in 1..Len(task'[t].results) :
                          task'[t].results[i].webhookId = w})
             = IF w \in DOMAIN registry /\ registry[w].enabled
                 THEN Cardinality(Recorded(w, FALSE))
                 ELSE 0
      /\ \A k \in 1..Len(deadLetter) :
           (\A j \in 1..Len(deadLetter') : deadLetter'[j] # deadLetter[k])
             => \E i \in 1..Len(task'[t].results) :
                  /\ task'[t].results[i].webhookId = deadLetter[k].webhookId
                  /\ task'[t].results[i].success

C22_RetryProcessesRecords == [][C22_RetryStep]_vars

\* C22 witness: a retry has returned after a delivery to a subscription that is still
\* stored and enabled was reported as dead-lettered.
C22_Witness ==
  \E t \in TaskIds, w \in DOMAIN registry :
    /\ task[t].kind = "retry" /\ task[t].pc = "done"
    /\ registry[w].enabled
    /\ Recorded(w, FALSE) # {}

\* the deliveries to webhook w that sendWebhook reported as dead-lettered after its
\* last attempt, by whichever operation called it
Exhausted(w) ==
  {p \in TaskIds \X (1..MaxWebhooks) :
     /\ task[p[1]].pc = "done"
     /\ p[2] <= Len(task[p[1]].results)
     /\ task[p[1]].results[p[2]].webhookId = w
     /\ task[p[1]].results[p[2]].deadLettered}

\* C25: every delivery that exhausted its attempts, whichever operation sent it (event
\* dispatch, test delivery, dead-letter retry), is counted as a failure in the
\* statistics of its subscription and has a record in the dead-letter store; and after
\* the last attempt no further POST of that delivery is issued.
C25_ExhaustedVisible ==
  /\ [](\A w \in DOMAIN registry :
          /\ registry[w].failedCalls >= Cardinality(Exhausted(w))
          /\ Cardinality({k \in 1..Len(deadLetter) : deadLetter[k].webhookId = w})
               >= Cardinality(Exhausted(w)))
  /\ [][\A t \in TaskIds :
          (task[t].pc = "inflight" /\ task[t].attempt = maxRetries)
            => ~(task'[t].pc = "inflight" /\ task'[t].cur.id = task[t].cur.id
                   /\ task'[t].ts = task[t].ts /\ task'[t] # task[t])]_vars

\* C25 witness: a test delivery has returned after its last attempt failed.
C25_Witness ==
  \E t \in TaskIds, w \in DOMAIN registry :
    /\ task[t].kind = "test" /\ task[t].pc = "done"
    /\ Len(task[t].results) = 1
    /\ task[t].results[1].webhookId = w
    /\ task[t].results[1].deadLettered
    /\ task[t].results[1].attempts = maxRetries

\* a step in which call t issues a POST: the first of a send, or the next attempt
PostIssued(t) ==
  /\ task'[t].pc = "inflight"
  /\ \/ task[t].pc # "inflight"
     \/ task'[t].attempt # task[t].attempt

\* C5: no POST is ever issued to a subscription at a moment when its enabled flag is
\* false, whatever the interleaving of updates with dispatches and dead-letter
\* retries in progress.
C5_NeverPostsToDisabled ==
  [][\A t \in TaskIds :
       PostIssued(t) => RegistryView(registry', task'[t].cur.id) # "disabled"]_vars

\* C6: getWebhooksForEvent returns exactly the enabled subscriptions, of the given
\* owner when a filter is given, whose events contain the event type or '*', each
\* once; an enabled subscription with '*' is returned for every event type; and the
\* targets a triggerWebhook call works through are subscriptions that, as resolved,
\* should receive its event.
C6_ResolveExact ==
  /\ \A e \in EventTypes, f \in Users \cup {NoUser} :
       LET got == getWebhooksForEvent(registry, e, f)
           ids == {got[i].id : i \in 1..Len(got)}
           InScope(w) == f # NoUser => registry[w].userId = f
       IN /\ ids = {w \in DOMAIN registry :
                      /\ InScope(w)
                      /\ registry[w].enabled
                      /\ (e \in registry[w].events \/ "*" \in registry[w].events)}
          /\ ids = {w \in DOMAIN registry :
                      InScope(w) /\ shouldReceiveEvent(registry[w], e)}
          /\ Len(got) = Cardinality(ids)
          /\ \A i \in 1..Len(got) : got[i] = registry[got[i].id]
          /\ \A w \in DOMAIN registry :
               ("*" \in registry[w].events /\ registry[w].enabled /\ InScope(w)) => w \in ids
  /\ \A t \in TaskIds :
       (task[t].kind = "trigger" /\ task[t].pc \in {"inflight", "stats"})
         => /\ \A i \in 1..Len(task[t].targets) :
                 shouldReceiveEvent(task[t].targets[i], task[t].eventType)
            /\ task[t].cur = task[t].targets[task[t].idx]

\* C6 witness: a dispatch of an event type no subscription names is being sent to the
\* subscription with '*', while an enabled exact-match subscription was not resolved.
C6_Witness ==
  \E t \in TaskIds :
    /\ task[t].kind = "trigger" /\ task[t].pc = "inflight"
    /\ task[t].eventType = "never:seen"
    /\ "*" \in task[t].cur.events
    /\ Len(task[t].targets) = 1
    /\ \E w \in DOMAIN registry :
         registry[w].enabled /\ registry[w].events = {"message:created"}

\* C12: after a failed attempt with attempts left the dispatcher waits
\* retryDelays[attempt] and then makes the next attempt; and a dispatch of
\* offer.accepted whose maxRetries attempts all fail has waited delays taken in order
\* from the schedule 1 s, 5 s, 15 s and ends with a dead-letter record of that delivery
\* whose attempts field is 3.
C12_BackoffStep ==
  \A t \in TaskIds :
    LET tk == task[t]
        nx == task'[t]
    IN /\ (tk.pc = "inflight" /\ nx.pc = "inflight" /\ nx.attempt # tk.attempt)
            => /\ nx.attempt = tk.attempt + 1
               /\ nx.delays = Append(tk.delays, retryDelays[tk.attempt])
       /\ (tk.pc = "inflight" /\ tk.eventType = "offer.accepted"
             /\ nx.pc = "stats" /\ ~nx.res.success)
            => /\ nx.res.attempts = 3
               /\ nx.delays = SubSeq(<<1000, 5000, 15000>>, 1, Len(nx.delays))
               /\ \E i \in RecordsOf(deadLetter', tk) : deadLetter'[i].attempts = 3

C12_BackoffThenDeadLetter == [][C12_BackoffStep]_vars

----------------------------------------------------------------------------
(* Properties of the registry, checked under SpecRegistry *)

\* C7: registering with events ["message.created"] and a valid URL succeeds: the
\* subscription is stored with that pattern and the response carries the secret,
\* 64 hexadecimal characters when none was supplied.
C7_DottedEventRegisters ==
  (resp.op = "register" /\ resp.req.events = {"message.created"}
     /\ resp.status # "Invalid webhook URL")
    => /\ resp.status = "ok"
       /\ resp.target \in DOMAIN registry
       /\ registry[resp.target].events = {"message.created"}
       /\ resp.secret = SuppliedSecret \/ (resp.secret.hex /\ resp.secret.chars = 64)

\* secrets a stored secret could be exchanged for
OtherSecrets == {SuppliedSecret, generateSecret(0), NoSecret}

Served(ops) == opCount' # opCount /\ resp' # resp /\ resp'.op \in ops

\* C9: update, delete and get (and statistics) of a subscription by a caller who is
\* not its owner answer 'Webhook not found', as they do for an id that is not stored,
\* and leave the registry and the cached lists unchanged.
C9_NonOwnerNotFound ==
  [][Served({"update", "delete", "get", "stats"}) =>
       /\ (resp'.target \in DOMAIN registry
             /\ registry[resp'.target].userId # resp'.caller)
            => /\ resp'.status = "Webhook not found"
               /\ resp'.body = <<>> /\ resp'.secret = NoSecret
               /\ registry' = registry
               /\ cache' = cache
       /\ resp'.target \notin DOMAIN registry
            => (resp'.status = "Webhook not found" /\ registry' = registry)]_vars

\* C9 witness: an update with rotateSecret by a caller who is not the owner was
\* answered 'Webhook not found' and the subscription is still stored.
C9_Witness ==
  /\ resp.op = "update" /\ resp.req.rotate
  /\ resp.status = "Webhook not found"
  /\ resp.target \in DOMAIN registry
  /\ registry[resp.target].userId # resp.caller

\* C29: the per-owner list cache is coherent with the registry: a getUserWebhooks call
\* that starts after a register, update or delete of that owner has completed returns
\* the owner's subscriptions as the registry holds them, whatever list calls were
\* populating the cache meanwhile.  (A call that misses the cache reads the registry
\* as it starts; the one that hits is answered from the cache.)
C29_ListCoherent ==
  [][(Served({"list"}) /\ cache[resp'.caller].hit)
       => resp'.body = SerializeDocs(findByUser(registry, resp'.caller))]_vars

\* C29 witness: a list call was answered from the cache, after a registration of the
\* same owner, with the owner's subscriptions as the registry holds them.
C29_Witness ==
  /\ resp.op = "list"
  /\ cache[resp.caller].hit
  /\ ~listPending[resp.caller].active
  /\ resp.body = cache[resp.caller].val
  /\ Len(resp.body) > 0
  /\ resp.body = SerializeDocs(findByUser(registry, resp.caller))

ValidationErrors ==
  {"ValidationError", "At least one event must be specified", "Invalid webhook URL"}

\* C10: every stored subscription has at least one event; a register or update
\* request naming an empty events array is rejected with a validation error (or, for
\* an update of a subscription the caller does not own, 'Webhook not found') and the
\* registry is unchanged.
C10_EventsNeverEmpty ==
  /\ [](\A w \in DOMAIN registry : registry[w].events # {})
  /\ [][(Served({"register", "update"}) /\ resp'.req.hasEvents /\ resp'.req.events = {})
          => /\ registry' = registry
             /\ resp'.status \in ValidationErrors \cup {"Webhook not found"}
             /\ resp'.status = "Webhook not found" => findOne(registry, resp'.target, resp'.caller) = {}]_vars

\* C10 witness: an owner's update to an empty events array was rejected by the
\* pre-save hook and the subscription keeps its events.
C10_Witness ==
  /\ resp.op = "update" /\ resp.req.hasEvents /\ resp.req.events = {}
  /\ resp.status = "At least one event must be specified"
  /\ resp.target \in DOMAIN registry
  /\ registry[resp.target].userId = resp.caller
  /\ registry[resp.target].events # {}

----------------------------------------------------------------------------
(* Properties of the chat message pipeline, checked under SpecChat *)

\* the recipient has no connected socket and is not marked online
RecipientOffline == ~online /\ \A x \in Sockets : ~sock[x].alive

\* message m reached a socket of the recipient
Received(m) == \E e \in pushed : e.msg = m

ReceivedAsOffline(m) == \E e \in pushed : e.msg = m /\ e.wasOffline

\* message m is in what getOfflineMessages returns for zset
StoredOffline(zset, m) ==
  \E i \in 1..Len(getOfflineMessages(zset)) : getOfflineMessages(zset)[i].message.id = m

\* C1: when the worker finishes a send-message job while the recipient is offline and
\* has not received the message, the payload is in getOfflineMessages(recipient); and
\* when the connection handler of a recipient's socket, which marks the recipient
\* online and calls deliverOfflineMessages, has ended, the offline entry is empty and
\* every message that was queued offline was pushed to the recipient with
\* wasOffline: true.
C1_OfflineStoredAndReplayed ==
  /\ [][\A m \in MsgIds :
          (mq[m].state \in {"waiting", "active"} /\ mq'[m].state = "completed"
             /\ RecipientOffline /\ ~Received(m))
            => StoredOffline(offline', m)]_vars
  /\ [][\A x \in Sockets :
          (sock[x].pc = "setUserOnline" /\ sock'[x].pc # "setUserOnline")
            => /\ offline' = <<>>
               /\ online'
               /\ \A m \in MsgIds :
                    mq[m].result = "queuedOffline" => ReceivedAsOffline(m)]_vars

\* C2: every send-message job that has ended left its message either pushed to the
\* recipient or stored in the recipient's offline entry, and a job that used up its
\* attempts left it in the offline entry (or replayed from there).
C2_NeverDiscarded ==
  \A m \in MsgIds :
    /\ mq[m].state \in {"completed", "failed"}
         => (Received(m) \/ StoredOffline(offline, m))
    /\ mq[m].state = "failed"
         => (StoredOffline(offline, m) \/ ReceivedAsOffline(m))

\* C23: the worker consults the presence of the job's recipient.  A job it takes while
\* the recipient is offline completes as queued offline with the payload in the
\* recipient's offline entry; and a job completes as delivered live only with the
\* payload pushed to a socket of the recipient and its delivery receipt recorded.
C23_WorkerStep ==
  \A m \in MsgIds :
    /\ (mq[m].state = "waiting" /\ mq'[m].state \in {"active", "completed"}
          /\ RecipientOffline)
         => /\ mq'[m].state = "completed"
            /\ mq'[m].result = "queuedOffline"
            /\ StoredOffline(offline', m)
    /\ (mq[m].state # "completed" /\ mq'[m].state = "completed"
          /\ mq'[m].result = "deliveredViaSocket")
         => /\ \E e \in pushed' : e.msg = m
            /\ m \in receipts'

C23_WorkerConsultsPresence == [][C23_WorkerStep]_vars

\* C23 witness: a job taken while the recipient had no socket has completed as
\* delivered via socket, with its receipt recorded.
C23_Witness ==
  \E m \in MsgIds :
    /\ mq[m].state = "completed" /\ mq[m].result = "deliveredViaSocket"
    /\ m \in receipts
    /\ RecipientOffline

\* a step in which the worker's enqueueOfflineMessage call for message m returns
Appends(m) == mq[m].state = "waiting" /\ mq'[m].result = "queuedOffline"

\* C24: each append to a recipient's offline entry stores the payload and sets the
\* entry's expiry horizon to 7 days from the append; and getOfflineMessages returns
\* nothing from an entry whose horizon has passed.
C24_OfflineExpiry ==
  /\ [](getOfflineMessages(offline) # <<>> => dateNow < offlineExpireAt)
  /\ [][\A m \in MsgIds :
          Appends(m) => /\ StoredOffline(offline', m)
                        /\ offlineExpireAt' = dateNow + OfflineTtl]_vars

----------------------------------------------------------------------------
(* Properties of signature verification, checked under SpecVerify *)

\* C11: verifySignature(payload, signature, secret) returns a boolean for every input:
\* true when the signature is the one generateSignature gives for that payload and
\* secret, and false for every other signature, which includes the signature of a
\* changed payload and the signature made with another secret.
C11_VerifyReturnsBoolean ==
  verification.result # "none" =>
    /\ verification.result \in {"true", "false"}
    /\ verification.result = "true" <=>
         verification.signature =
           generateSignature(verification.payload, verification.secret)

\* C14: whenever an offer job and a plain-text job are both waiting in the work
\* queue, the job the worker takes next is an offer job.
C14_OfferTakenFirst ==
  [][\A m \in MsgIds :
       (mq[m].state = "waiting" /\ mq'[m].state # "waiting"
          /\ (\E k \in MsgIds : mq[k].state = "waiting" /\ mq[k].type = "offer")
          /\ (\E j \in MsgIds : mq[j].state = "waiting" /\ mq[j].type = "text"))
         => mq[m].type = "offer"]_vars

----------------------------------------------------------------------------
(* Properties of the presence directory, checked under SpecPresence *)

\* the last call was a markOnline and its setUserSession has returned
MarkedOnline ==
  /\ lastCall.op = "markOnline"
  /\ sock[lastCall.socketId].pc \notin {"hsetLastSeen", "expire"}

\* no connection handler is inside setUserSession
NoSessionWrite == \A x \in Sockets : sock[x].pc \notin {"hsetLastSeen", "expire"}

\* C15: the directory holds at most one session for the user, and once the most
\* recent markOnline has stored its session, getUserSession returns the connection id
\* of that markOnline for as long as the session has not expired.
C15_OneSessionMostRecent ==
  /\ Cardinality({x \in Sockets :
                    getUserSession(session, dateNow, redisUrlSet).socketId = x}) <= 1
  /\ (MarkedOnline /\ dateNow < lastCall.at + SessionTtl)
       => /\ getUserSession(session, dateNow, redisUrlSet).found
          /\ getUserSession(session, dateNow, redisUrlSet).socketId = lastCall.socketId

\* C16: a markOffline that follows a markOffline raises no error and leaves the
\* directory as it is, and reading the session of a user who has none gives the
\* absent session, not an error.
C16_MarkOfflineIdempotent ==
  /\ [](Live(session, dateNow).socketId = 0
          => /\ getUserSession(session, dateNow, redisUrlSet) = NoSession
             /\ getUserPresence(session, online, dateNow, redisUrlSet).socketId = 0)
  /\ []((lastCall.op = "markOffline" /\ lastCall.repeated) => lastCall.error = "none")
  /\ [][(lastCall'.op = "markOffline" /\ lastCall'.repeated /\ lastCall' # lastCall)
          => (session' = session /\ online' = online)]_vars

\* C17: a stored session whose lastSeen is 24 hours old or older is treated as offline
\* by isUserOnline and getUserSession, and one whose lastSeen is younger is treated
\* as online.
C17_SoftExpiry ==
  (session.lastSeen # -1 /\ NoSessionWrite)
    => IF dateNow - session.lastSeen >= SessionTtl
         THEN /\ ~isUserOnline(online)
              /\ ~getUserSession(session, dateNow, redisUrlSet).found
         ELSE /\ isUserOnline(online)
              /\ getUserSession(session, dateNow, redisUrlSet).found

\* connection 1 was superseded by connection 2, whose session is stored, and then
\* went away while connection 2 stays
OlderDisconnected ==
  /\ \A x \in Sockets : sock[x].pc \in {"setUserOnline", "rejected"}
  /\ lastCall.op = "markOnline" /\ lastCall.socketId = 2
  /\ ~sock[1].alive /\ sock[2].alive

\* C26: presence follows the newest connection: after the user connected on
\* connection 1, then on connection 2, and connection 1 has disconnected, the user is
\* still reported online and getUserSession still addresses connection 2.
C26_PresenceFollowsNewest ==
  OlderDisconnected
    => /\ isUserOnline(online)
       /\ getUserPresence(session, online, dateNow, redisUrlSet).isOnline
       /\ getUserSession(session, dateNow, redisUrlSet).found
       /\ getUserSession(session, dateNow, redisUrlSet).socketId = 2

\* C26 witness: the older connection has disconnected and the stored session
\* addresses the newer one.
C26_Witness ==
  /\ OlderDisconnected
  /\ getUserSession(session, dateNow, redisUrlSet).socketId = 2

----------------------------------------------------------------------------
(* Properties of URL validation, checked under SpecUrl *)

\* the URLs of the model whose host is a loopback or a private (RFC 1918) address
InternalUrls == {PrivateUrl, Private172Url, LocalhostUrl, LoopbackV6Url}

\* the URLs the contract has rejected under NODE_ENV = env
MustReject(url, env) ==
  \/ ~ParseURL(url).ok
  \/ ParseURL(url).port \in DangerousPorts
  \/ env # "development" /\ (ParseURL(url).protocol = "http:" \/ url \in InternalUrls)

\* C20: register, and update of the URL, reject with a validation error, and without
\* changing the registry, every URL that is syntactically invalid, that uses a common
\* non-HTTP service port, or that, in any mode other than development, uses the HTTP
\* scheme or targets an internal or private network address.
C20_RejectsUnsafeUrls ==
  [][(Served({"register", "update"}) /\ resp'.req.hasUrl
        /\ MustReject(resp'.req.url, nodeEnv))
       => /\ resp'.status \in ValidationErrors
          /\ registry' = registry]_vars

\* C20 witness: in production a registration naming a private address, and one
\* naming a service port, are rejected with 'Invalid webhook URL'.
C20_Witness ==
  /\ nodeEnv = "production"
  /\ resp.op = "register"
  /\ resp.req.url \in {PrivateUrl, Private172Url, PortUrl, HttpUrl}
  /\ resp.status = "Invalid webhook URL"
  /\ registry = <<>>

----------------------------------------------------------------------------
(* Properties of the retry policy, checked under SpecPolicy *)

\* the retry policy a registration configured: what its body named, else the default
Configured(opts) ==
  [maxRetries |-> IF opts.hasMaxRetries THEN opts.maxRetries ELSE SchemaDefaults.maxRetries,
   timeout |-> IF opts.hasTimeout THEN opts.timeout ELSE SchemaDefaults.timeout]

\* C21: each delivery to a subscription follows that subscription's own retry policy:
\* it makes at most the configured number of attempts (default 3) and every attempt is
\* bounded by the configured timeout (default 10 s, within 1 s .. 30 s).  Stated for
\* the subscription the last registration created.
C21_FollowsOwnPolicy ==
  \A t \in TaskIds :
    (/\ task[t].pc = "inflight"
     /\ resp.op = "register" /\ resp.status = "ok"
     /\ task[t].cur.id = resp.target)
      => /\ task[t].attempt <= Configured(resp.req.opts).maxRetries
         /\ task[t].timeout = Configured(resp.req.opts).timeout
         /\ task[t].timeout \in 1000..30000

\* C21 witness: a delivery to a subscription registered without options is at its
\* third attempt, each bounded by 10 s.
C21_Witness ==
  \E t \in TaskIds :
    /\ task[t].pc = "inflight"
    /\ resp.op = "register" /\ resp.status = "ok" /\ resp.req.opts = NoOpts
    /\ task[t].cur.id = resp.target
    /\ task[t].attempt = SchemaDefaults.maxRetries
    /\ task[t].timeout = SchemaDefaults.timeout

====
